---- MODULE Spec2Model ----
(***************************************************************************)
(* A model of the Monkey Pratt parser (monkey/parser/parser.go).           *)
(*                                                                         *)
(* The state is the parser object (curToken, peekToken, errors), the       *)
(* lexer it pulls from (input, pos), the Program being built (Statements), *)
(* the statement a parse routine is about to return (stmt) and the place   *)
(* of control inside ParseProgram (pc).  Expression parsing is recursive   *)
(* in the code and is modelled by RECURSIVE operators on a parser record   *)
(* [cur, peek, pos, errors]; the statement level is modelled step by step. *)
(***************************************************************************)
EXTENDS Integers, Sequences, FiniteSets, TLC

VARIABLES input, pos, curToken, peekToken, errors, Statements, stmt, pc

vars == <<input, pos, curToken, peekToken, errors, Statements, stmt, pc>>

(***************************************************************************)
(* Bounds of the model.                                                    *)
(***************************************************************************)
\* longest token stream of the unrestricted input family
MaxLen == 4
\* longest skipped tail t1..tk of the let-statement input family
MaxTail == 3
\* most statements in an input built from whole statements
MaxSegments == 2

(***************************************************************************)
(* Token kinds (package monkey/token).  A TokenType is a string and %s     *)
(* prints it as it is; the kinds are named as the specification prints     *)
(* them in diagnostics.                                                    *)
(***************************************************************************)
EOF == "EOF"
IDENT == "IDENT"
INT == "INT"
ASSIGN == "ASSIGN"
PLUS == "PLUS"
MINUS == "MINUS"
BANG == "BANG"
ASTERISK == "ASTERISK"
SLASH == "SLASH"
LT == "LT"
GT == "GT"
EQ == "EQ"
NOT_EQ == "NOT_EQ"
SEMICOLON == "SEMICOLON"
LPAREN == "LPAREN"
\* token.LET (LET is a reserved word of TLA+)
LETKW == "LET"
RETURN == "RETURN"

\* token.Token{Type, Literal}; a literal is its sequence of characters
Token(type, literal) == [Type |-> type, Literal |-> literal]

EOFToken == Token(EOF, <<>>)

(***************************************************************************)
(* Operator precedence levels and the precedence table.                    *)
(***************************************************************************)
LOWEST == 1
EQUALS == 2
LESSGREATER == 3
SUM == 4
PRODUCT == 5
PREFIX == 6
CALL == 7

\* a plausible slip in the table: the product operators entered at the sum level
precedencesProductAsSum ==
    (EQ :> EQUALS) @@ (NOT_EQ :> EQUALS) @@ (LT :> LESSGREATER) @@ (GT :> LESSGREATER)
    @@ (PLUS :> SUM) @@ (MINUS :> SUM) @@ (SLASH :> SUM) @@ (ASTERISK :> SUM)

precedences ==
    (EQ :> EQUALS) @@ (NOT_EQ :> EQUALS) @@ (LT :> LESSGREATER) @@ (GT :> LESSGREATER)
    @@ (PLUS :> SUM) @@ (MINUS :> SUM) @@ (SLASH :> PRODUCT) @@ (ASTERISK :> PRODUCT)

\* the kinds New() registers a prefix / an infix parse function for
prefixParseFns == {IDENT, INT, BANG, MINUS}
infixParseFns == {PLUS, MINUS, SLASH, ASTERISK, EQ, NOT_EQ, LT, GT}

(***************************************************************************)
(* The lexer: NextToken() hands out the tokens of the input in order and   *)
(* the EOF token on every pull after the last one.                         *)
(***************************************************************************)
LexerNextToken(i) == IF i <= Len(input) THEN input[i] ELSE EOFToken
LexerAdvance(i) == IF i <= Len(input) THEN i + 1 ELSE i

(***************************************************************************)
(* The parser record and the cursor operations.                            *)
(***************************************************************************)
ParserState == [cur |-> curToken, peek |-> peekToken, pos |-> pos, errors |-> errors]

NextToken(p) ==
    [p EXCEPT !.cur = p.peek, !.peek = LexerNextToken(p.pos), !.pos = LexerAdvance(p.pos)]

\* a plausible slip: the lookahead tested in place of the current token
CurTokenIsLookahead(p, t) == p.peek.Type = t

CurTokenIs(p, t) == p.cur.Type = t

PeekTokenIs(p, t) == p.peek.Type = t

PeekError(p, t) ==
    [p EXCEPT !.errors = Append(p.errors,
        "expected next token to be " \o t \o ", got " \o p.peek.Type \o " instead")]

\* a plausible slip: the cursor moves on a mismatch as well
ExpectPeekAlwaysAdvances(p, t) ==
    IF PeekTokenIs(p, t)
    THEN [ok |-> TRUE, p |-> NextToken(p)]
    ELSE [ok |-> FALSE, p |-> NextToken(PeekError(p, t))]

ExpectPeek(p, t) ==
    IF PeekTokenIs(p, t)
    THEN [ok |-> TRUE, p |-> NextToken(p)]
    ELSE [ok |-> FALSE, p |-> PeekError(p, t)]

PeekPrecedence(p) ==
    IF p.peek.Type \in DOMAIN precedences THEN precedences[p.peek.Type] ELSE LOWEST

CurPrecedence(p) ==
    IF p.cur.Type \in DOMAIN precedences THEN precedences[p.cur.Type] ELSE LOWEST

(***************************************************************************)
(* AST nodes (package monkey/ast), as the parser builds them.  Nil is an   *)
(* absent expression (a nil ast.Expression).                               *)
(***************************************************************************)
Nil == [node |-> "nil"]

Identifier(tok) == [node |-> "Identifier", Token |-> tok, Value |-> tok.Literal]

IntegerLiteral(tok, value) == [node |-> "IntegerLiteral", Token |-> tok, Value |-> value]

PrefixExpression(tok, right) ==
    [node |-> "PrefixExpression", Token |-> tok, Operator |-> tok.Literal, Right |-> right]

InfixExpression(tok, left, right) ==
    [node |-> "InfixExpression", Token |-> tok, Operator |-> tok.Literal,
     Left |-> left, Right |-> right]

\* &ast.LetStatement{Token, Name}; Value is never set by the parser
LetStatement(tok, name) ==
    [node |-> "LetStatement", Token |-> tok, Name |-> name, Value |-> Nil]

\* parseLetStatement's `return nil`: a nil *ast.LetStatement.  parseStatement
\* returns it as an ast.Statement, an interface value that holds a type and
\* so is not equal to nil.
NilLetStatement == [node |-> "LetStatement", nilPointer |-> TRUE]

ReturnStatement(tok) == [node |-> "ReturnStatement", Token |-> tok, Value |-> Nil]

ExpressionStatement(tok, exp) ==
    [node |-> "ExpressionStatement", Token |-> tok, Expression |-> exp]

\* the value of `stmt` before parseStatement has returned one
NoStatement == [node |-> "none"]

(***************************************************************************)
(* strconv.ParseInt(literal, 0, 64) on a literal of decimal digits, which  *)
(* is what the lexer classifies as INT.  Base 0 reads a leading "0" as the *)
(* octal prefix.  The value is computed in TLC's integers, so it          *)
(* is exact for the short literals of the inputs; the range check compares *)
(* digit strings and is exact for every length.                            *)
(***************************************************************************)
Digits == {"0", "1", "2", "3", "4", "5", "6", "7", "8", "9"}

DigitValue(c) ==
    CASE c = "0" -> 0 [] c = "1" -> 1 [] c = "2" -> 2 [] c = "3" -> 3 [] c = "4" -> 4
      [] c = "5" -> 5 [] c = "6" -> 6 [] c = "7" -> 7 [] c = "8" -> 8 [] c = "9" -> 9

\* the decimal digits of 1<<63 - 1
MaxInt64Digits ==
    <<9, 2, 2, 3, 3, 7, 2, 0, 3, 6, 8, 5, 4, 7, 7, 5, 8, 0, 7>>

RECURSIVE StripZeros(_)
StripZeros(ds) == IF ds # <<>> /\ ds[1] = 0 THEN StripZeros(Tail(ds)) ELSE ds

RECURSIVE DigitsGreater(_, _)
\* ds > es for digit sequences of the same length
DigitsGreater(ds, es) ==
    IF ds = <<>> THEN FALSE
    ELSE IF ds[1] # es[1] THEN ds[1] > es[1]
    ELSE DigitsGreater(Tail(ds), Tail(es))

\* whether the digits ds, read in the given base, exceed 1<<63 - 1
OutOfRange(ds, base) ==
    LET n == StripZeros(ds) IN
    IF base = 10
    THEN Len(n) > 19 \/ (Len(n) = 19 /\ DigitsGreater(n, MaxInt64Digits))
    ELSE Len(n) > 21

RECURSIVE DigitsValue(_, _, _)
DigitsValue(ds, base, acc) ==
    IF ds = <<>> THEN acc ELSE DigitsValue(Tail(ds), base, acc * base + ds[1])

ParseInt(literal) ==
    IF literal = <<>> \/ \E i \in 1..Len(literal) : literal[i] \notin Digits
    THEN [ok |-> FALSE, value |-> 0]
    ELSE LET octal == literal[1] = "0"
             base == IF octal THEN 8 ELSE 10
             body == IF octal THEN Tail(literal) ELSE literal
             ds == [i \in 1..Len(body) |-> DigitValue(body[i])]
         IN  IF \E i \in 1..Len(ds) : ds[i] >= base THEN [ok |-> FALSE, value |-> 0]
             ELSE IF OutOfRange(ds, base) THEN [ok |-> FALSE, value |-> 0]
             ELSE [ok |-> TRUE, value |-> DigitsValue(ds, base, 0)]

RECURSIVE Concat(_)
\* the characters of a literal as one string
Concat(literal) == IF literal = <<>> THEN "" ELSE literal[1] \o Concat(Tail(literal))

\* fmt's %q of a literal without characters to escape
Quote(literal) == "\"" \o Concat(literal) \o "\""

(***************************************************************************)
(* Expression parsing.  Each routine takes the parser record and returns   *)
(* [p |-> the parser record after it, exp |-> the expression it returns].  *)
(***************************************************************************)
\* a plausible slip: the failure is not recorded
NoPrefixParseFnErrorSilent(p, t) == p

NoPrefixParseFnError(p, t) ==
    [p EXCEPT !.errors = Append(p.errors, "no prefix parse function for " \o t \o " found")]

ParseIdentifier(p) == [p |-> p, exp |-> Identifier(p.cur)]

ParseIntegerLiteral(p) ==
    LET r == ParseInt(p.cur.Literal) IN
    IF ~r.ok
    THEN [p |-> [p EXCEPT !.errors = Append(p.errors,
                    "could not parse " \o Quote(p.cur.Literal) \o " as integer")],
          exp |-> Nil]
    ELSE [p |-> p, exp |-> IntegerLiteral(p.cur, r.value)]

RECURSIVE ParseExpression(_, _)
RECURSIVE ParseExpressionLoop(_, _, _)
RECURSIVE ParsePrefixExpression(_)
RECURSIVE ParseInfixExpression(_, _)

\* In the routines below the result r of a nested call is bound by
\* r \in {call}, which evaluates the call once.

\* a plausible slip: the operand of a prefix operator parsed at the lowest level
ParsePrefixExpressionAtLowest(p) ==
    CHOOSE res \in {[p |-> r.p, exp |-> PrefixExpression(p.cur, r.exp)] :
                        r \in {ParseExpression(NextToken(p), LOWEST)}} : TRUE

ParsePrefixExpression(p) ==
    CHOOSE res \in {[p |-> r.p, exp |-> PrefixExpression(p.cur, r.exp)] :
                        r \in {ParseExpression(NextToken(p), PREFIX)}} : TRUE

\* a plausible slip: the right operand parsed one level below the operator's own
ParseInfixExpressionOneLevelBelow(p, left) ==
    CHOOSE res \in {[p |-> r.p, exp |-> InfixExpression(p.cur, left, r.exp)] :
                        r \in {ParseExpression(NextToken(p), CurPrecedence(p) - 1)}} : TRUE

ParseInfixExpression(p, left) ==
    CHOOSE res \in {[p |-> r.p, exp |-> InfixExpression(p.cur, left, r.exp)] :
                        r \in {ParseExpression(NextToken(p), CurPrecedence(p))}} : TRUE

\* the prefix parse function registered for the current token's kind
PrefixParseFn(p) ==
    CASE p.cur.Type = IDENT -> ParseIdentifier(p)
      [] p.cur.Type = INT -> ParseIntegerLiteral(p)
      [] p.cur.Type \in {BANG, MINUS} -> ParsePrefixExpression(p)

\* the for loop of parseExpression, entered with leftExp
ParseExpressionLoop(p, leftExp, precedence) ==
    IF ~PeekTokenIs(p, SEMICOLON) /\ precedence < PeekPrecedence(p)
    THEN IF p.peek.Type \notin infixParseFns
         THEN [p |-> p, exp |-> leftExp]
         ELSE CHOOSE res \in {ParseExpressionLoop(r.p, r.exp, precedence) :
                                  r \in {ParseInfixExpression(NextToken(p), leftExp)}} : TRUE
    ELSE [p |-> p, exp |-> leftExp]

ParseExpression(p, precedence) ==
    IF p.cur.Type \notin prefixParseFns
    THEN [p |-> NoPrefixParseFnError(p, p.cur.Type), exp |-> Nil]
    ELSE CHOOSE res \in {ParseExpressionLoop(r.p, r.exp, precedence) :
                             r \in {PrefixParseFn(p)}} : TRUE

\* parseExpressionStatement: [p, stmt]
ParseExpressionStatement(p) ==
    CHOOSE res \in
        {[p |-> IF PeekTokenIs(r.p, SEMICOLON) THEN NextToken(r.p) ELSE r.p,
          stmt |-> ExpressionStatement(p.cur, r.exp)] :
            r \in {ParseExpression(p, LOWEST)}} : TRUE

(***************************************************************************)
(* The token streams the parser is run on.                                 *)
(***************************************************************************)
TokLet == Token(LETKW, <<"l", "e", "t">>)
TokReturn == Token(RETURN, <<"r", "e", "t", "u", "r", "n">>)
TokAssign == Token(ASSIGN, <<"=">>)
TokSemicolon == Token(SEMICOLON, <<";">>)
TokPlus == Token(PLUS, <<"+">>)
TokMinus == Token(MINUS, <<"-">>)
TokBang == Token(BANG, <<"!">>)
TokAsterisk == Token(ASTERISK, <<"*">>)
TokSlash == Token(SLASH, <<"/">>)
TokLt == Token(LT, <<"<">>)
TokGt == Token(GT, <<">">>)
TokEq == Token(EQ, <<"=", "=">>)
TokNotEq == Token(NOT_EQ, <<"!", "=">>)
TokLparen == Token(LPAREN, <<"(">>)
TokIdent(name) == Token(IDENT, <<name>>)
TokInt(digit) == Token(INT, <<digit>>)
\* an INT token whose text is beyond the 64-bit range: twenty nines
TokIntTooBig == Token(INT, [i \in 1..20 |-> "9"])

InfixTokens == {TokPlus, TokMinus, TokAsterisk, TokSlash, TokEq, TokNotEq, TokLt, TokGt}
PrefixTokens == {TokMinus, TokBang}

\* the tokens of the unrestricted family
GenTokens ==
    {TokLet, TokReturn, TokIdent("x"), TokInt("5"), TokIntTooBig, TokAssign, TokSemicolon,
     TokPlus, TokMinus, TokAsterisk, TokBang, TokLparen}

AllTokens == GenTokens \cup InfixTokens \cup {TokIdent("y")}

SeqsUpTo(S, n) == UNION {[1..k -> S] : k \in 0..n}

\* every token stream of at most MaxLen tokens
GeneralInputs == SeqsUpTo(GenTokens, MaxLen)

\* let <ident> = t1..tk ;  with no ti a SEMICOLON
LetInputs ==
    {<<TokLet, TokIdent(n), TokAssign>> \o tail \o <<TokSemicolon>> :
        n \in {"x", "y"}, tail \in SeqsUpTo(AllTokens \ {TokSemicolon}, MaxTail)}

\* the i-th operand of an expression: an identifier or an integer literal
Operands(i) ==
    CASE i = 1 -> {TokIdent("a"), TokInt("1")}
      [] i = 2 -> {TokIdent("b"), TokInt("2")}
      [] i = 3 -> {TokIdent("c"), TokInt("3")}

OptionalSemicolon == {<<>>, <<TokSemicolon>>}

\* p a o b  and  p a o b ;
PrefixInputs ==
    {<<op, a, o, b>> \o end :
        op \in PrefixTokens, a \in Operands(1), o \in InfixTokens, b \in Operands(2),
        end \in OptionalSemicolon}

\* a o1 b o2 c  and  a o1 b o2 c ;
ChainInputs ==
    {<<a, o1, b, o2, c>> \o end :
        a \in Operands(1), o1 \in InfixTokens, b \in Operands(2), o2 \in InfixTokens,
        c \in Operands(3), end \in OptionalSemicolon}

\* whole statements: well-formed ones, and ones with exactly one malformed construct
WellFormedStatements ==
    {<<TokLet, TokIdent("y"), TokAssign, TokInt("5"), TokSemicolon>>,
     <<TokIdent("y"), TokSemicolon>>,
     <<TokInt("5"), TokPlus, TokIdent("y"), TokSemicolon>>,
     <<TokReturn, TokInt("5"), TokSemicolon>>}

MalformedStatements ==
    {<<TokLet, TokAssign, TokInt("5"), TokSemicolon>>,
     <<TokLet, TokIdent("x"), TokInt("5"), TokSemicolon>>,
     <<TokLparen, TokSemicolon>>,
     <<TokIntTooBig, TokSemicolon>>}

RECURSIVE Flatten(_)
Flatten(segs) == IF segs = <<>> THEN <<>> ELSE segs[1] \o Flatten(Tail(segs))

SegmentSeqs == SeqsUpTo(WellFormedStatements \cup MalformedStatements, MaxSegments)

StatementInputs == {Flatten(segs) : segs \in SegmentSeqs}

\* let t ... ;  with t not an identifier, followed by at most one well-formed statement
LetWithoutIdent ==
    {<<TokLet, t>> \o mid \o <<TokSemicolon>> :
        t \in GenTokens \ {TokIdent("x"), TokSemicolon, TokLet},
        mid \in {<<>>, <<TokAssign, TokInt("5")>>}}

RecoveryInputs ==
    {m \o w : m \in LetWithoutIdent, w \in WellFormedStatements \cup {<<>>}}

Inputs ==
    GeneralInputs \cup LetInputs \cup PrefixInputs \cup ChainInputs
    \cup StatementInputs \cup RecoveryInputs

(***************************************************************************)
(* The state after New(l): two tokens pulled, no errors, and ParseProgram  *)
(* about to test its loop condition on an empty Program.                   *)
(***************************************************************************)
ZeroToken == Token("", <<>>)

New == NextToken(NextToken([cur |-> ZeroToken, peek |-> ZeroToken, pos |-> 1, errors |-> <<>>]))

Init ==
    /\ input \in Inputs
    /\ curToken = New.cur
    /\ peekToken = New.peek
    /\ pos = New.pos
    /\ errors = New.errors
    /\ Statements = <<>>
    /\ stmt = NoStatement
    /\ pc = "loop"

\* the parser's fields after a routine that left the parser record p
SetParser(p) ==
    /\ curToken' = p.cur
    /\ peekToken' = p.peek
    /\ pos' = p.pos
    /\ errors' = p.errors

(***************************************************************************)
(* ParseProgram, step by step.  pc is "loop" at the loop test, "letAssign" *)
(* between the two expectPeek calls of parseLetStatement, "letSkip" and    *)
(* "returnSkip" in the skipping loops, "advance" when parseStatement has   *)
(* returned stmt, and "done" when ParseProgram has returned.               *)
(***************************************************************************)
\* the loop test fails: return program
ReturnProgram ==
    /\ pc = "loop"
    /\ curToken.Type = EOF
    /\ pc' = "done"
    /\ UNCHANGED <<input, pos, curToken, peekToken, errors, Statements, stmt>>

\* parseStatement -> parseLetStatement, up to and including stmt.Name
ParseLetStatementIdent ==
    /\ pc = "loop"
    /\ curToken.Type = LETKW
    /\ \E r \in {ExpectPeek(ParserState, IDENT)} :
        /\ SetParser(r.p)
        /\ IF r.ok
           THEN stmt' = LetStatement(curToken, Identifier(r.p.cur)) /\ pc' = "letAssign"
           ELSE stmt' = NilLetStatement /\ pc' = "advance"
    /\ UNCHANGED <<input, Statements>>

\* parseLetStatement: the check for `=`
ParseLetStatementAssign ==
    /\ pc = "letAssign"
    /\ \E r \in {ExpectPeek(ParserState, ASSIGN)} :
        /\ SetParser(r.p)
        /\ IF r.ok
           THEN stmt' = stmt /\ pc' = "letSkip"
           ELSE stmt' = NilLetStatement /\ pc' = "advance"
    /\ UNCHANGED <<input, Statements>>

\* parseStatement -> parseReturnStatement, up to its loop
ParseReturnStatement ==
    /\ pc = "loop"
    /\ curToken.Type = RETURN
    /\ stmt' = ReturnStatement(curToken)
    /\ \E p \in {NextToken(ParserState)} : SetParser(p)
    /\ pc' = "returnSkip"
    /\ UNCHANGED <<input, Statements>>

\* one turn of `for !p.curTokenIs(token.SEMICOLON) { p.nextToken() }`
SkipToken ==
    /\ pc \in {"letSkip", "returnSkip"}
    /\ ~CurTokenIs(ParserState, SEMICOLON)
    /\ \E p \in {NextToken(ParserState)} : SetParser(p)
    /\ UNCHANGED <<input, Statements, stmt, pc>>

\* the skipping loop ends and the routine returns stmt
SkipDone ==
    /\ pc \in {"letSkip", "returnSkip"}
    /\ CurTokenIs(ParserState, SEMICOLON)
    /\ pc' = "advance"
    /\ UNCHANGED <<input, pos, curToken, peekToken, errors, Statements, stmt>>

\* parseStatement -> parseExpressionStatement
ParseExpressionStatementStep ==
    /\ pc = "loop"
    /\ curToken.Type \notin {EOF, LETKW, RETURN}
    /\ \E r \in {ParseExpressionStatement(ParserState)} :
        /\ SetParser(r.p)
        /\ stmt' = r.stmt
    /\ pc' = "advance"
    /\ UNCHANGED <<input, Statements>>

\* the rest of the loop body: `if stmt != nil { append }` and p.nextToken()
AppendAndAdvance ==
    /\ pc = "advance"
    /\ Statements' = IF stmt # Nil THEN Append(Statements, stmt) ELSE Statements
    /\ \E p \in {NextToken(ParserState)} : SetParser(p)
    /\ stmt' = NoStatement
    /\ pc' = "loop"
    /\ UNCHANGED input

Next ==
    \/ ReturnProgram
    \/ ParseLetStatementIdent
    \/ ParseLetStatementAssign
    \/ ParseReturnStatement
    \/ SkipToken
    \/ SkipDone
    \/ ParseExpressionStatementStep
    \/ AppendAndAdvance

Spec == Init /\ [][Next]_vars

(***************************************************************************)
(* Vocabulary of the properties.  The expected trees are written out here  *)
(* from the grammar, independently of the parser's operators.              *)
(***************************************************************************)
Done == pc = "done"

\* the binding level the specification gives each infix operator kind
Level(kind) ==
    CASE kind \in {EQ, NOT_EQ} -> 1
      [] kind \in {LT, GT} -> 2
      [] kind \in {PLUS, MINUS} -> 3
      [] kind \in {SLASH, ASTERISK} -> 4

\* the leaf an operand token stands for
OperandNode(tok) ==
    IF tok.Type = IDENT
    THEN [node |-> "Identifier", Token |-> tok, Value |-> tok.Literal]
    ELSE [node |-> "IntegerLiteral", Token |-> tok,
          Value |-> CASE tok.Literal = <<"1">> -> 1 [] tok.Literal = <<"2">> -> 2
                      [] tok.Literal = <<"3">> -> 3 [] tok.Literal = <<"5">> -> 5]

Prefix(op, right) ==
    [node |-> "PrefixExpression", Token |-> op, Operator |-> op.Literal, Right |-> right]

Infix(op, left, right) ==
    [node |-> "InfixExpression", Token |-> op, Operator |-> op.Literal,
     Left |-> left, Right |-> right]

ExprStmt(first, exp) == [node |-> "ExpressionStatement", Token |-> first, Expression |-> exp]

LetStmt(name) ==
    [node |-> "LetStatement", Token |-> TokLet,
     Name |-> [node |-> "Identifier", Token |-> name, Value |-> name.Literal],
     Value |-> Nil]

RECURSIVE ExpressionsOf(_)
\* an expression tree's nodes, absent children included
ExpressionsOf(e) ==
    CASE e.node = "PrefixExpression" -> {e} \cup ExpressionsOf(e.Right)
      [] e.node = "InfixExpression" -> {e} \cup ExpressionsOf(e.Left) \cup ExpressionsOf(e.Right)
      [] OTHER -> {e}

\* the statements returned so far: those in the Program and the one in hand
Returned ==
    {Statements[i] : i \in DOMAIN Statements} \cup (IF pc = "advance" THEN {stmt} ELSE {})

\* the expression nodes under the returned expression statements
ReturnedExpressions ==
    UNION {ExpressionsOf(s.Expression) : s \in {r \in Returned : r.node = "ExpressionStatement"}}

StructuralMismatch(expected, got) ==
    "expected next token to be " \o expected \o ", got " \o got \o " instead"

(***************************************************************************)
(* Properties.                                                             *)
(***************************************************************************)

\* C1: ParseProgram always terminates and returns the Program, for every
\* finite token stream followed by EOF on every later pull, also when a let
\* or return statement has no SEMICOLON before EOF.
\* As a property of states: the parse has returned, or its next step changes
\* the state.  The token source answers EOF to every later pull, so a step
\* that changes nothing is repeated for ever.
C1_ParseProgramTerminates == Done \/ ENABLED <<Next>>_vars

\* C2: no parsing routine returns a composite node with a missing required
\* child: every returned PrefixExpression has its operand, every returned
\* InfixExpression its left and right child, every returned
\* ExpressionStatement its expression.
C2_NoMissingChild ==
    /\ \A s \in Returned : s.node = "ExpressionStatement" => s.Expression # Nil
    /\ \A e \in ReturnedExpressions :
        /\ e.node = "PrefixExpression" => e.Right # Nil
        /\ e.node = "InfixExpression" => e.Left # Nil /\ e.Right # Nil

\* C2, amended: the routines return their node also when the sub-expression
\* cannot be parsed, and a required child is absent only when a diagnostic
\* has been recorded: with Errors() empty every returned node is complete.
C2_MissingChildOnlyWithDiagnostic ==
    /\ pc = "advance" => stmt.node \in {"LetStatement", "ReturnStatement", "ExpressionStatement"}
    /\ errors = <<>> =>
        /\ \A s \in Returned : s.node = "ExpressionStatement" => s.Expression # Nil
        /\ \A e \in ReturnedExpressions :
            /\ e.node = "PrefixExpression" => e.Right # Nil
            /\ e.node = "InfixExpression" => e.Left # Nil /\ e.Right # Nil

C2_Witness ==
    /\ Done
    /\ input = <<TokMinus, TokSemicolon>>
    /\ Len(Statements) = 1
    /\ Statements[1].Expression.node = "PrefixExpression"
    /\ Statements[1].Expression.Right = Nil
    /\ errors = <<"no prefix parse function for SEMICOLON found">>

\* the input is LET IDENT(n) ASSIGN t1..tk SEMICOLON with no ti a SEMICOLON
IsLetForm ==
    /\ Len(input) >= 4
    /\ input[1].Type = LETKW
    /\ input[2].Type = IDENT
    /\ input[3].Type = ASSIGN
    /\ \A i \in 4..Len(input) : input[i].Type = SEMICOLON <=> i = Len(input)

\* C3: for LET IDENT(n) ASSIGN t1..tk SEMICOLON EOF, with no ti a SEMICOLON
\* or EOF, ParseProgram returns exactly one statement, a LetStatement whose
\* Name is n, and Errors() is empty.
C3_LetStatementParsed ==
    (Done /\ IsLetForm) => Statements = <<LetStmt(input[2])>> /\ errors = <<>>

C3_Witness ==
    /\ Done
    /\ input = <<TokLet, TokIdent("x"), TokAssign, TokInt("5"), TokPlus, TokSemicolon>>
    /\ Len(Statements) = 1
    /\ Statements[1].Name.Value = <<"x">>

\* C7: a prefix operator binds tighter than every infix operator:
\* `p a o b` parses to InfixExpression(o, PrefixExpression(p, a), b).
C7_PrefixBindsTighter ==
    (Done /\ input \in PrefixInputs) =>
        /\ Statements = <<ExprStmt(input[1],
               Infix(input[3], Prefix(input[1], OperandNode(input[2])), OperandNode(input[4])))>>
        /\ errors = <<>>

C7_Witness ==
    /\ Done
    /\ input = <<TokMinus, TokIdent("a"), TokAsterisk, TokIdent("b")>>
    /\ Len(Statements) = 1
    /\ Statements[1].Expression.Operator = <<"*">>
    /\ Statements[1].Expression.Left.node = "PrefixExpression"

\* C8: infix operators of the same precedence level associate to the left:
\* `a o1 b o2 c` parses to InfixExpression(o2, InfixExpression(o1, a, b), c).
C8_LeftAssociative ==
    (Done /\ input \in ChainInputs /\ Level(input[2].Type) = Level(input[4].Type)) =>
        /\ Statements = <<ExprStmt(input[1],
               Infix(input[4],
                     Infix(input[2], OperandNode(input[1]), OperandNode(input[3])),
                     OperandNode(input[5])))>>
        /\ errors = <<>>

C8_Witness ==
    /\ Done
    /\ input = <<TokIdent("a"), TokMinus, TokIdent("b"), TokMinus, TokIdent("c")>>
    /\ Len(Statements) = 1
    /\ Statements[1].Expression.Left.node = "InfixExpression"
    /\ Statements[1].Expression.Right.node = "Identifier"

\* the step is a call of expectPeek(kind)
ExpectPeekCalled(kind) ==
    \/ kind = IDENT /\ pc = "loop" /\ curToken.Type = LETKW
    \/ kind = ASSIGN /\ pc = "letAssign"

\* C9: expectPeek(kind) is all-or-nothing: on a match it advances exactly
\* one token, returns true and appends no diagnostic; otherwise it returns
\* false, leaves the current and the lookahead token unchanged, pulls no
\* token and appends exactly one diagnostic "expected next token to be
\* <kind>, got <actual lookahead kind> instead".
C9_ExpectPeekAllOrNothing ==
    [][\A kind \in {IDENT, ASSIGN} : ExpectPeekCalled(kind) =>
        IF peekToken.Type = kind
        THEN /\ curToken' = peekToken
             /\ peekToken' = (IF pos <= Len(input) THEN input[pos] ELSE EOFToken)
             /\ pos' = (IF pos <= Len(input) THEN pos + 1 ELSE pos)
             /\ errors' = errors
             /\ pc' \in {"letAssign", "letSkip"}
        ELSE /\ curToken' = curToken
             /\ peekToken' = peekToken
             /\ pos' = pos
             /\ errors' = errors \o <<StructuralMismatch(kind, peekToken.Type)>>
             /\ pc' = "advance"]_vars

C9_Witness ==
    /\ pc = "advance"
    /\ stmt = NilLetStatement
    /\ curToken = TokIdent("x")
    /\ peekToken = TokInt("5")
    /\ errors = <<"expected next token to be ASSIGN, got INT instead">>

\* C10: a higher-precedence infix operator binds tighter than a lower one on
\* either side of it, and the loop never takes a SEMICOLON or a kind absent
\* from the precedence table as an operator.
C10_HigherPrecedenceBindsTighter ==
    /\ (Done /\ input \in ChainInputs /\ Level(input[4].Type) > Level(input[2].Type)) =>
        Statements = <<ExprStmt(input[1],
            Infix(input[2], OperandNode(input[1]),
                  Infix(input[4], OperandNode(input[3]), OperandNode(input[5]))))>>
    /\ (Done /\ input \in ChainInputs /\ Level(input[4].Type) < Level(input[2].Type)) =>
        Statements = <<ExprStmt(input[1],
            Infix(input[4],
                  Infix(input[2], OperandNode(input[1]), OperandNode(input[3])),
                  OperandNode(input[5])))>>
    /\ \A e \in ReturnedExpressions :
        e.node = "InfixExpression" =>
            e.Token.Type \in {EQ, NOT_EQ, LT, GT, PLUS, MINUS, SLASH, ASTERISK}

C10_Witness ==
    /\ Done
    /\ input = <<TokIdent("a"), TokPlus, TokInt("2"), TokAsterisk, TokIdent("c"), TokSemicolon>>
    /\ Len(Statements) = 1
    /\ Statements[1].Expression.Operator = <<"+">>
    /\ Statements[1].Expression.Right.node = "InfixExpression"

\* the kinds a diagnostic of expectPeek can name
Kinds ==
    {EOF, IDENT, INT, ASSIGN, PLUS, MINUS, BANG, ASTERISK, SLASH, LT, GT, EQ, NOT_EQ,
     SEMICOLON, LPAREN, LETKW, RETURN}

StructuralMismatches == {StructuralMismatch(e, g) : e \in {IDENT, ASSIGN}, g \in Kinds}

\* a LetStatement that lacks something: a nil one, or one without its name
IncompleteLet(s) ==
    /\ s.node = "LetStatement"
    /\ "Name" \in DOMAIN s => s.Name = Nil

\* the tree of each well-formed statement
ExpectedStatement(w) ==
    CASE w = <<TokLet, TokIdent("y"), TokAssign, TokInt("5"), TokSemicolon>> ->
            LetStmt(TokIdent("y"))
      [] w = <<TokIdent("y"), TokSemicolon>> ->
            ExprStmt(TokIdent("y"), OperandNode(TokIdent("y")))
      [] w = <<TokInt("5"), TokPlus, TokIdent("y"), TokSemicolon>> ->
            ExprStmt(TokInt("5"),
                     Infix(TokPlus, OperandNode(TokInt("5")), OperandNode(TokIdent("y"))))
      [] w = <<TokReturn, TokInt("5"), TokSemicolon>> ->
            [node |-> "ReturnStatement", Token |-> TokReturn, Value |-> Nil]

\* the statements an input of well-formed statements stands for
ExpectedStatements(w) == IF w = <<>> THEN <<>> ELSE <<ExpectedStatement(w)>>

\* C4: when LET is followed by a token that is not an IDENT, parsing that
\* let statement records exactly one structural-mismatch diagnostic, the
\* malformed statement contributes no statement or only an incomplete one,
\* and the well-formed statements after it still appear in the Program.
C4_LetWithoutIdentifier ==
    \A m \in LetWithoutIdent : \A w \in WellFormedStatements \cup {<<>>} :
        (Done /\ input = m \o w) =>
            /\ Cardinality({i \in DOMAIN errors : errors[i] \in StructuralMismatches}) = 1
            /\ \E i \in DOMAIN errors : errors[i] = StructuralMismatch(IDENT, m[2].Type)
            /\ \/ Statements = ExpectedStatements(w)
               \/ /\ Len(Statements) = 1 + Len(ExpectedStatements(w))
                  /\ IncompleteLet(Statements[1])
                  /\ Tail(Statements) = ExpectedStatements(w)

\* C5: LET IDENT(x) INT(5) SEMICOLON EOF yields no statement or one
\* incomplete LetStatement, and Errors() is exactly
\* ["expected next token to be ASSIGN, got INT instead"].
C5_LetWithoutAssign ==
    (Done /\ input = <<TokLet, TokIdent("x"), TokInt("5"), TokSemicolon>>) =>
        /\ \/ Statements = <<>>
           \/ Len(Statements) = 1 /\ IncompleteLet(Statements[1])
        /\ errors = <<"expected next token to be ASSIGN, got INT instead">>

\* C6: the number of diagnostics equals the number of malformed constructs
\* of the input, however many well-formed statements surround them.
C6_OneDiagnosticPerMalformedConstruct ==
    \A segs \in SegmentSeqs :
        (Done /\ input = Flatten(segs)) =>
            Len(errors) = Cardinality({i \in DOMAIN segs : segs[i] \in MalformedStatements})

====
